---- MODULE Spec2Model ----
\* A model of sat_data.py: the date-stamped cache (get_data, write_data,
\* read_data), the paginated, rate-limited fetch (retrieve_discos_data) and
\* the normalisation of each dataset (clean_discos and its six functions).
\*
\* Values of the Python program are modelled as tagged pairs <<tag, v>>:
\*   <<"none", 0>>   None                 <<"nan", 0>>    float NaN
\*   <<"str", ds>>   a string of digits   <<"int", n>>    an integer
\*   <<"list", s>>   a list of strings    <<"ilist", s>>  a list of ints
\*   <<"refs", s>>   a list of {id, type} reference dicts
\*   <<"dict", r>>   one {id, type} reference dict
\*   <<"date", d>>   a parseable epoch string, <<"bad", 0>> an unparseable
\*   one, <<"ts", d>> a Timestamp, <<"nat", 0>> NaT
\*   <<"text", v>>   a field of a csv file
EXTENDS Integers, Sequences, FiniteSets, TLC

\* ------------------------------------------------------------------------
\* Bounds of the model
\* ------------------------------------------------------------------------
MaxPages == 2
MaxFiles == 2
MaxCalls == 2
MaxRecs == 2

\* ------------------------------------------------------------------------
\* Python values
\* ------------------------------------------------------------------------
None == <<"none", 0>>
NaN == <<"nan", 0>>
NaT == <<"nat", 0>>
Link == <<"link", 0>>

RECURSIVE DigitsVal(_)
\* int() of a string of decimal digits
DigitsVal(ds) ==
    IF Len(ds) = 0 THEN 0
    ELSE 10 * DigitsVal(SubSeq(ds, 1, Len(ds) - 1)) + ds[Len(ds)]

RECURSIVE ValDigits(_)
\* str() of a non-negative integer
ValDigits(n) ==
    IF n < 10 THEN <<n>> ELSE Append(ValDigits(n \div 10), n % 10)

\* str(x)
PyStr(x) ==
    CASE x[1] = "str" -> x
      [] x[1] = "int" -> <<"str", ValDigits(x[2])>>
      [] x[1] = "nan" -> <<"strnan", 0>>
      [] OTHER -> <<"strother", 0>>

\* int(x)
PyInt(x) ==
    CASE x[1] = "int" -> x
      [] x[1] = "str" -> <<"int", DigitsVal(x[2])>>
      [] OTHER -> <<"interr", 0>>

\* the truth value of x as python's `not x` sees it
Falsy(x) ==
    \/ x[1] = "none"
    \/ x[1] = "refs" /\ Len(x[2]) = 0

\* ------------------------------------------------------------------------
\* DataFrames: a set of column names and a sequence of rows, each row a
\* function from the column names to values
\* ------------------------------------------------------------------------
EmptyDf == [columns |-> {}, rows |-> <<>>]

\* a row widened to the columns cols, the missing cells NaN
Widen(row, cols) ==
    [c \in cols |-> IF c \in DOMAIN row THEN row[c] ELSE NaN]

\* a df.append that puts the new rows first
DfAppend_Prepend(df, dfi) ==
    LET cols == df.columns \cup dfi.columns
    IN [columns |-> cols,
        rows |-> [i \in 1..Len(dfi.rows) |-> Widen(dfi.rows[i], cols)]
                 \o [i \in 1..Len(df.rows) |-> Widen(df.rows[i], cols)]]

\* df.append(dfi, ignore_index = True)
DfAppend(df, dfi) ==
    LET cols == df.columns \cup dfi.columns
    IN [columns |-> cols,
        rows |-> [i \in 1..Len(df.rows) |-> Widen(df.rows[i], cols)]
                 \o [i \in 1..Len(dfi.rows) |-> Widen(dfi.rows[i], cols)]]

\* the result of a step of normalisation: err = "none" and the DataFrame, or
\* the exception raised
Ok(df) == [err |-> "none", df |-> df]
Raise(e) == [err |-> e, df |-> EmptyDf]

\* df.drop(columns = drop_cols, inplace = True): KeyError when a label is
\* not a column
DfDrop(df, drop_cols) ==
    IF ~(drop_cols \subseteq df.columns) THEN Raise("KeyError")
    ELSE LET cols == df.columns \ drop_cols
         IN Ok([columns |-> cols,
                rows |-> [i \in 1..Len(df.rows) |->
                             [c \in cols |-> df.rows[i][c]]]])

\* df.rename(columns = rename_cols, inplace = True): labels that are no
\* column are ignored
DfRename(df, rename_cols) ==
    LET New(c) == IF c \in DOMAIN rename_cols THEN rename_cols[c] ELSE c
        cols == {New(c) : c \in df.columns}
        Old(n) == CHOOSE c \in df.columns : New(c) = n
    IN [columns |-> cols,
        rows |-> [i \in 1..Len(df.rows) |->
                     [n \in cols |-> df.rows[i][Old(n)]]]]

\* pd.to_datetime of one cell
ToTimestamp(x) ==
    CASE x[1] = "date" -> <<"ts", x[2]>>
      [] x[1] \in {"none", "nan"} -> NaT
      [] OTHER -> x

\* df[col] = pd.to_datetime(df[col])
DfToDatetime(df, col) ==
    IF col \notin df.columns THEN Raise("KeyError")
    ELSE IF \E i \in 1..Len(df.rows) : df.rows[i][col][1] = "bad"
         THEN Raise("ValueError")
    ELSE Ok([columns |-> df.columns,
             rows |-> [i \in 1..Len(df.rows) |->
                          [c \in df.columns |->
                              IF c = col THEN ToTimestamp(df.rows[i][c])
                              ELSE df.rows[i][c]]]])

\* ------------------------------------------------------------------------
\* Raw records of the API and pd.json_normalize
\*
\* A raw record carries the keys the normalisation reads: id, the attributes
\* epoch and vimpelId, the to-one relationships launch, reentry and site
\* (data is None or <<"dict", [id, type]>>) and the to-many relationships
\* initialOrbits, destinationOrbits, operators and objects (data is None or
\* <<"refs", list>>).  Every other attribute has the value Attr and every
\* link the value Link.
\* ------------------------------------------------------------------------
Attr == <<"attr", 0>>
TypeName == <<"type", 0>>

Databases ==
    {"objects", "launches", "reentries", "launch-sites", "initial-orbits",
     "fragmentations"}

Cols(S, v) == [c \in S |-> v]

\* the flattened columns of a to-one relationship: <rel>.data when data is
\* null, <rel>.data.id and <rel>.data.type when it is a dict
FlattenToOne(dataCol, idCol, typeCol, d) ==
    IF d[1] = "dict" THEN (idCol :> d[2].id) @@ (typeCol :> TypeName)
    ELSE (dataCol :> d)

ObjectsAttributes ==
    {"attributes.cosparId", "attributes.xSectAvg", "attributes.depth",
     "attributes.xSectMin", "attributes.shape", "attributes.satno",
     "attributes.name", "attributes.height", "attributes.objectClass",
     "attributes.mass", "attributes.xSectMax", "attributes.length"}

ObjectsLinks ==
    {"links.self",
     "relationships.states.links.self",
     "relationships.states.links.related",
     "relationships.initialOrbits.links.self",
     "relationships.initialOrbits.links.related",
     "relationships.launch.links.self",
     "relationships.launch.links.related",
     "relationships.reentry.links.self",
     "relationships.reentry.links.related",
     "relationships.operators.links.self",
     "relationships.operators.links.related",
     "relationships.destinationOrbits.links.self",
     "relationships.destinationOrbits.links.related"}

LaunchesLinks ==
    {"links.self",
     "relationships.site.links.self",
     "relationships.site.links.related",
     "relationships.objects.links.self",
     "relationships.objects.links.related",
     "relationships.entities.links.self",
     "relationships.entities.links.related",
     "relationships.vehicle.links.self",
     "relationships.vehicle.links.related"}

ReentriesLinks ==
    {"links.self",
     "relationships.objects.links.self",
     "relationships.objects.links.related"}

LaunchSitesLinks ==
    {"links.self",
     "relationships.launches.links.self",
     "relationships.launches.links.related",
     "relationships.operators.links.self",
     "relationships.operators.links.related"}

OrbitsLinks ==
    {"links.self",
     "relationships.object.links.self",
     "relationships.object.links.related"}

\* one record flattened to dotted column names, as the API lays out the
\* records of each database
Flatten(database, r) ==
    LET head == ("id" :> r.id) @@ ("type" :> TypeName)
    IN CASE database = "objects" ->
              head @@ Cols(ObjectsLinks, Link) @@ Cols(ObjectsAttributes, Attr)
              @@ ("attributes.vimpelId" :> r.vimpelId)
              @@ ("relationships.initialOrbits.data" :> r.initialOrbits)
              @@ ("relationships.destinationOrbits.data" :> r.destinationOrbits)
              @@ ("relationships.operators.data" :> r.operators)
              @@ FlattenToOne("relationships.launch.data",
                              "relationships.launch.data.id",
                              "relationships.launch.data.type", r.launch)
              @@ FlattenToOne("relationships.reentry.data",
                              "relationships.reentry.data.id",
                              "relationships.reentry.data.type", r.reentry)
         [] database = "launches" ->
              head @@ Cols(LaunchesLinks, Link)
              @@ Cols({"attributes.flightNo", "attributes.failure",
                       "attributes.cosparLaunchNo"}, Attr)
              @@ ("attributes.epoch" :> r.epoch)
              @@ FlattenToOne("relationships.site.data",
                              "relationships.site.data.id",
                              "relationships.site.data.type", r.site)
         [] database = "reentries" ->
              head @@ Cols(ReentriesLinks, Link)
              @@ ("attributes.epoch" :> r.epoch)
         [] database = "launch-sites" ->
              head @@ Cols(LaunchSitesLinks, Link)
              @@ Cols({"attributes.constraints", "attributes.pads",
                       "attributes.altitude", "attributes.latitude",
                       "attributes.azimuths", "attributes.name",
                       "attributes.longitude"}, Attr)
         [] database = "initial-orbits" ->
              head @@ Cols(OrbitsLinks, Link)
              @@ Cols({"attributes.sma", "attributes.aPer", "attributes.inc",
                       "attributes.mAno", "attributes.ecc", "attributes.raan",
                       "attributes.frame"}, Attr)
              @@ ("attributes.epoch" :> r.epoch)
         [] database = "fragmentations" ->
              head @@ Cols(ReentriesLinks, Link)
              @@ Cols({"attributes.eventType", "attributes.longitude",
                       "attributes.comment", "attributes.latitude",
                       "attributes.altitude"}, Attr)
              @@ ("attributes.epoch" :> r.epoch)
              @@ ("relationships.objects.data" :> r.objects)

\* pd.json_normalize(dat): one row per record, the columns the union of the
\* records' flattened keys, NaN where a record has no such key
JsonNormalize(database, dat) ==
    LET flat == [i \in 1..Len(dat) |-> Flatten(database, dat[i])]
        cols == UNION {DOMAIN flat[i] : i \in 1..Len(dat)}
    IN [columns |-> cols,
        rows |-> [i \in 1..Len(dat) |-> Widen(flat[i], cols)]]

\* ------------------------------------------------------------------------
\* clean_discos and the six normalisations
\* ------------------------------------------------------------------------
\* a coercion that keeps a single reference as a list of one id
RefCoerce_NoCollapse(x) ==
    IF Falsy(x) THEN NaN
    ELSE <<"list", [i \in 1..Len(x[2]) |-> PyStr(x[2][i].id)]>>

\* lambda x: np.nan if not x else (str(x[0]['id']) if len(x) == 1 else
\*                                 [str(xi['id']) for xi in x])
RefCoerce(x) ==
    IF Falsy(x) THEN NaN
    ELSE IF Len(x[2]) = 1 THEN PyStr(x[2][1].id)
    ELSE <<"list", [i \in 1..Len(x[2]) |-> PyStr(x[2][i].id)]>>

\* len(x) of a value that is no list raises TypeError
RefCoerceRaises(x) == ~Falsy(x) /\ x[1] # "refs"

\* lambda x: np.nan if x is None else str(x)
NoneToNanElseStr(x) == IF x[1] = "none" THEN NaN ELSE PyStr(x)

\* a coercion of DiscosIds that collapses a single reference to a scalar,
\* as the coercion of the objects columns does
IntIdList_Collapse(x) ==
    IF Len(x[2]) = 1 THEN PyInt(x[2][1].id)
    ELSE <<"ilist", [i \in 1..Len(x[2]) |-> PyInt(x[2][i].id)]>>

\* lambda x : list(int(xx['id']) for xx in x)
IntIdList(x) == <<"ilist", [i \in 1..Len(x[2]) |-> PyInt(x[2][i].id)]>>

\* iterating a value that is no list raises TypeError
IntIdListRaises(x) == x[1] # "refs"

\* the function handed to Series.apply, by name
Lambda(f, x) ==
    CASE f = "RefCoerce" -> RefCoerce(x)
      [] f = "NoneToNanElseStr" -> NoneToNanElseStr(x)
      [] f = "IntIdList" -> IntIdList(x)

\* whether that function raises on the cell x
LambdaRaises(f, x) ==
    CASE f = "RefCoerce" -> RefCoerceRaises(x)
      [] f = "NoneToNanElseStr" -> FALSE
      [] f = "IntIdList" -> IntIdListRaises(x)

\* df[col] = df[col].apply(f): KeyError when col is no column, the
\* exception of f when f raises on a cell
DfApply(df, col, f) ==
    IF col \notin df.columns THEN Raise("KeyError")
    ELSE IF \E i \in 1..Len(df.rows) : LambdaRaises(f, df.rows[i][col])
         THEN Raise("TypeError")
    ELSE Ok([columns |-> df.columns,
             rows |-> [i \in 1..Len(df.rows) |->
                          [c \in df.columns |->
                              IF c = col THEN Lambda(f, df.rows[i][c])
                              ELSE df.rows[i][c]]]])

objects_drop_cols ==
    {"type",
     "relationships.states.links.self",
     "relationships.states.links.related",
     "relationships.initialOrbits.links.self",
     "relationships.initialOrbits.links.related",
     "relationships.launch.links.self",
     "relationships.launch.links.related",
     "relationships.launch.data.type",
     "relationships.reentry.links.self",
     "relationships.reentry.links.related",
     "relationships.reentry.data.type",
     "relationships.operators.links.self",
     "relationships.operators.links.related",
     "relationships.destinationOrbits.links.self",
     "relationships.destinationOrbits.links.related",
     "relationships.reentry.data",
     "relationships.launch.data",
     "links.self"}

objects_rename_cols ==
    ("id" :> "DiscosID")
    @@ ("attributes.cosparId" :> "IntlDes")
    @@ ("attributes.xSectAvg" :> "XSectAvg")
    @@ ("attributes.depth" :> "Depth")
    @@ ("attributes.xSectMin" :> "XSectMin")
    @@ ("attributes.vimpelId" :> "VimpelId")
    @@ ("attributes.shape" :> "Shape")
    @@ ("attributes.satno" :> "SatNo")
    @@ ("attributes.name" :> "SatName")
    @@ ("attributes.height" :> "Height")
    @@ ("attributes.objectClass" :> "ObjectType")
    @@ ("attributes.mass" :> "Mass")
    @@ ("attributes.xSectMax" :> "XSectMax")
    @@ ("attributes.length" :> "Length")
    @@ ("relationships.initialOrbits.data" :> "InitOrbitId")
    @@ ("relationships.launch.data.id" :> "LaunchId")
    @@ ("relationships.reentry.data.id" :> "ReentryId")
    @@ ("relationships.operators.data" :> "OperatorId")
    @@ ("relationships.destinationOrbits.data" :> "DestOrbitId")

clean_discos_objects(df) ==
    LET s1 == DfDrop(df, objects_drop_cols)
        s2 == IF s1.err # "none" THEN s1
              ELSE Ok(DfRename(s1.df, objects_rename_cols))
        s3 == IF s2.err # "none" THEN s2
              ELSE DfApply(s2.df, "InitOrbitId", "RefCoerce")
        s4 == IF s3.err # "none" THEN s3
              ELSE DfApply(s3.df, "DestOrbitId", "RefCoerce")
        s5 == IF s4.err # "none" THEN s4
              ELSE DfApply(s4.df, "OperatorId", "RefCoerce")
    IN IF s5.err # "none" THEN s5
       ELSE DfApply(s5.df, "VimpelId", "NoneToNanElseStr")

launches_drop_cols ==
    {"type",
     "relationships.site.links.self",
     "relationships.site.links.related",
     "relationships.site.data.type",
     "relationships.objects.links.self",
     "relationships.objects.links.related",
     "relationships.entities.links.self",
     "relationships.entities.links.related",
     "relationships.vehicle.links.self",
     "relationships.vehicle.links.related",
     "relationships.site.data",
     "links.self"}

launches_rename_cols ==
    ("id" :> "LaunchId")
    @@ ("relationships.site.data.id" :> "LaunchSiteId")
    @@ ("attributes.epoch" :> "Epoch")
    @@ ("attributes.flightNo" :> "FlightNo")
    @@ ("attributes.failure" :> "Failure")
    @@ ("attributes.cosparLaunchNo" :> "CosparLaunchNo")

clean_discos_launches(df) ==
    LET s1 == DfDrop(df, launches_drop_cols)
        s2 == IF s1.err # "none" THEN s1
              ELSE Ok(DfRename(s1.df, launches_rename_cols))
        s3 == IF s2.err # "none" THEN s2
              ELSE DfApply(s2.df, "LaunchSiteId", "NoneToNanElseStr")
    IN IF s3.err # "none" THEN s3 ELSE DfToDatetime(s3.df, "Epoch")

reentries_drop_cols ==
    {"type",
     "relationships.objects.links.self",
     "relationships.objects.links.related",
     "links.self"}

reentries_rename_cols ==
    ("id" :> "ReentryId") @@ ("attributes.epoch" :> "Epoch")

clean_discos_reentries(df) ==
    LET s1 == DfDrop(df, reentries_drop_cols)
        s2 == IF s1.err # "none" THEN s1
              ELSE Ok(DfRename(s1.df, reentries_rename_cols))
    IN IF s2.err # "none" THEN s2 ELSE DfToDatetime(s2.df, "Epoch")

launchsites_drop_cols ==
    {"type",
     "relationships.launches.links.self",
     "relationships.launches.links.related",
     "relationships.operators.links.self",
     "relationships.operators.links.related",
     "links.self"}

launchsites_rename_cols ==
    ("id" :> "LaunchSiteId")
    @@ ("attributes.constraints" :> "Constraints")
    @@ ("attributes.pads" :> "Pads")
    @@ ("attributes.altitude" :> "Altitude")
    @@ ("attributes.latitude" :> "Latitude")
    @@ ("attributes.azimuths" :> "Azimuths")
    @@ ("attributes.name" :> "Name")
    @@ ("attributes.longitude" :> "Longitude")

clean_discos_launchsites(df) ==
    LET s1 == DfDrop(df, launchsites_drop_cols)
    IN IF s1.err # "none" THEN s1
       ELSE Ok(DfRename(s1.df, launchsites_rename_cols))

orbits_drop_cols ==
    {"type",
     "relationships.object.links.self",
     "relationships.object.links.related",
     "links.self"}

orbits_rename_cols ==
    ("id" :> "OrbitId")
    @@ ("attributes.sma" :> "SemiMajorAxis")
    @@ ("attributes.epoch" :> "Epoch")
    @@ ("attributes.aPer" :> "ArgPeriapsis")
    @@ ("attributes.inc" :> "Inclination")
    @@ ("attributes.mAno" :> "MeanAnomoly")
    @@ ("attributes.ecc" :> "Eccentricity")
    @@ ("attributes.raan" :> "RAAN")
    @@ ("attributes.frame" :> "RefFrame")

clean_discos_orbits(df) ==
    LET s1 == DfDrop(df, orbits_drop_cols)
    IN IF s1.err # "none" THEN s1
       ELSE Ok(DfRename(s1.df, orbits_rename_cols))

fragmentations_drop_cols ==
    {"type",
     "relationships.objects.links.self",
     "relationships.objects.links.related",
     "links.self"}

fragmentations_rename_cols ==
    ("id" :> "FragmentationId")
    @@ ("attributes.eventType" :> "eventType")
    @@ ("attributes.longitude" :> "Longitude")
    @@ ("attributes.comment" :> "Comment")
    @@ ("attributes.epoch" :> "Epoch")
    @@ ("attributes.latitude" :> "Latitude")
    @@ ("attributes.altitude" :> "Altitude")
    @@ ("relationships.objects.data" :> "DiscosIds")

clean_discos_fragmentations(df) ==
    LET s1 == DfDrop(df, fragmentations_drop_cols)
        s2 == IF s1.err # "none" THEN s1
              ELSE Ok(DfRename(s1.df, fragmentations_rename_cols))
        s3 == IF s2.err # "none" THEN s2 ELSE DfToDatetime(s2.df, "Epoch")
    IN IF s3.err # "none" THEN s3
       ELSE DfApply(s3.df, "DiscosIds", "IntIdList")

\* clean[database](df)
clean_discos(database, df) ==
    CASE database = "objects" -> clean_discos_objects(df)
      [] database = "launches" -> clean_discos_launches(df)
      [] database = "reentries" -> clean_discos_reentries(df)
      [] database = "launch-sites" -> clean_discos_launchsites(df)
      [] database = "initial-orbits" -> clean_discos_orbits(df)
      [] database = "fragmentations" -> clean_discos_fragmentations(df)

\* ------------------------------------------------------------------------
\* csv files: df.to_csv(file, index = False) and pd.read_csv(file)
\* ------------------------------------------------------------------------
\* one cell as to_csv writes it: NaN, None and NaT as the empty field, a
\* string or an integer as its digits, anything else as its repr
ToCsvCell(x) ==
    CASE x[1] \in {"nan", "none", "nat"} -> <<"empty", 0>>
      [] x[1] = "str" -> <<"text", x[2]>>
      [] x[1] = "int" -> <<"text", ValDigits(x[2])>>
      [] OTHER -> <<"repr", x>>

\* one field as read_csv reads it: the empty field as NaN, digits as a
\* number, anything else as a string
ReadCsvCell(x) ==
    CASE x[1] = "empty" -> NaN
      [] x[1] = "text" -> <<"int", DigitsVal(x[2])>>
      [] OTHER -> <<"strrepr", x[2]>>

to_csv(df) ==
    <<"csv", [columns |-> df.columns,
              rows |-> [i \in 1..Len(df.rows) |->
                           [c \in df.columns |-> ToCsvCell(df.rows[i][c])]]]>>

\* a file pd.read_csv cannot parse
Corrupt == <<"corrupt", EmptyDf>>

read_csv(content) ==
    [columns |-> content[2].columns,
     rows |-> [i \in 1..Len(content[2].rows) |->
                  [c \in content[2].columns |->
                      ReadCsvCell(content[2].rows[i][c])]]]

\* ------------------------------------------------------------------------
\* Inputs: records, pages and responses of the API, names of cache files
\* ------------------------------------------------------------------------
Id(ds) == <<"str", ds>>
Ref(id) == [id |-> id, type |-> TypeName]
Dict(id) == <<"dict", Ref(id)>>
Refs(s) == <<"refs", s>>

\* a raw record, the keys a database does not have set to None
Rec(id, epoch, vimpelId, launch, reentry, site, io, do, op, objects) ==
    [id |-> id, epoch |-> epoch, vimpelId |-> vimpelId, launch |-> launch,
     reentry |-> reentry, site |-> site, initialOrbits |-> io,
     destinationOrbits |-> do, operators |-> op, objects |-> objects]

\* the data a to-many relationship can carry
ToManyData ==
    {None, Refs(<<>>), Refs(<<Ref(Id(<<4, 2>>))>>),
     Refs(<<Ref(Id(<<4, 2>>)), Ref(Id(<<0, 7>>))>>),
     Refs(<<Ref(Id(<<0, 7>>)), Ref(<<"int", 5>>), Ref(Id(<<4, 2>>))>>)}

\* the data a to-one relationship can carry
ToOneData == {None, Dict(Id(<<9>>))}

EpochData == {<<"date", 1>>, <<"bad", 0>>, None}

\* the records the normalisation is checked on
NormRecords(database) ==
    CASE database = "objects" ->
           {Rec(Id(<<1>>), None, v, l, r, None, m, Refs(<<>>), m, None) :
               v \in {None, <<"int", 12>>}, l \in ToOneData, r \in ToOneData,
               m \in ToManyData}
      [] database = "launches" ->
           {Rec(Id(<<1>>), e, None, None, None, st, None, None, None, None) :
               e \in EpochData, st \in ToOneData}
      [] database = "fragmentations" ->
           {Rec(Id(<<1>>), e, None, None, None, None, None, None, None, m) :
               e \in EpochData, m \in ToManyData}
      [] database \in {"reentries", "initial-orbits"} ->
           {Rec(Id(<<1>>), e, None, None, None, None, None, None, None, None) :
               e \in EpochData}
      [] database = "launch-sites" ->
           {Rec(Id(<<1>>), None, None, None, None, None, None, None, None, None)}

\* two records of each database for the runs of get_data: for objects one
\* with a launch and no reentry and one with a reentry and no launch
RecA(database) ==
    CASE database = "objects" ->
           Rec(Id(<<1>>), None, None, Dict(Id(<<9>>)), None, None,
               Refs(<<Ref(Id(<<4, 2>>))>>), Refs(<<>>), Refs(<<>>), None)
      [] database = "fragmentations" ->
           Rec(Id(<<1>>), <<"date", 1>>, None, None, None, None, None, None,
               None, Refs(<<Ref(Id(<<4, 2>>))>>))
      [] OTHER ->
           Rec(Id(<<1>>), <<"date", 1>>, None, None, None, Dict(Id(<<9>>)),
               None, None, None, None)

RecB(database) ==
    CASE database = "objects" ->
           Rec(Id(<<2>>), None, <<"int", 12>>, None, Dict(Id(<<8>>)), None,
               Refs(<<>>), Refs(<<Ref(Id(<<0, 7>>)), Ref(Id(<<4, 2>>))>>),
               None, None)
      [] database = "fragmentations" ->
           Rec(Id(<<2>>), <<"bad", 0>>, None, None, None, None, None, None,
               None, Refs(<<>>))
      [] OTHER ->
           Rec(Id(<<2>>), None, None, None, None, None, None, None, None,
               None)

RECURSIVE SeqsUpTo(_, _)
\* the sequences over S of length at most n
SeqsUpTo(S, n) ==
    IF n = 0 THEN {<<>>}
    ELSE LET shorter == SeqsUpTo(S, n - 1)
         IN shorter \cup {Append(q, x) : q \in shorter, x \in S}

\* the values of the Retry-After header the server sends
RetryAfterVals == {0, 10}

\* a response: ok, the records of the page, meta.pagination.totalPages and
\* the headers X-Ratelimit-Remaining and Retry-After.  A response that is
\* not ok carries an error payload and no data.
Response(ok, data, totalPages, remaining, retryAfter) ==
    [ok |-> ok, data |-> data, totalPages |-> totalPages,
     remaining |-> remaining, retryAfter |-> retryAfter]

NoResponse == Response(FALSE, <<>>, 0, 0, 0)

Headers == {<<1, 0>>} \cup {<<0, ra>> : ra \in RetryAfterVals}

\* the responses of a server whose pages are drawn from pages, which
\* reports one of totals as totalPages and sends one of headers
Responses(pages, totals, headers) ==
    {Response(TRUE, d, n, h[1], h[2]) :
        d \in pages, n \in totals, h \in headers}
    \cup {Response(FALSE, <<>>, 0, h[1], h[2]) : h \in headers}

\* names of cache files: the prefix before "_", the date stamp the regular
\* expression finds (a calendar date, digits that are no calendar date, or
\* none) and what is left of the name ("csv" for <prefix>_<date>.csv)
FileName(prefix, stamp, rest) ==
    [prefix |-> prefix, stamp |-> stamp, rest |-> rest]

Date(d) == <<"date", d>>
BadDate == <<"baddate", 0>>
NoDate == <<"nodate", 0>>

\* max_age_days of get_data
max_age_days == 365

\* the days the clock of the model runs through
FirstDay == max_age_days
Days == {FirstDay, FirstDay + 1, FirstDay + max_age_days}

\* dt.datetime.now() on day d, in half days since the midnight that begins
\* day 0: the clock is read in the evening of FirstDay and in the morning of
\* the other days
Instant(d) == 2 * d + (IF d = FirstDay THEN 1 ELSE 0)

\* a page whose records normalise, and the file an earlier run wrote of it
GoodPage(database) ==
    IF database = "objects" THEN <<RecA(database), RecB(database)>>
    ELSE <<RecA(database)>>

SampleContent(database) ==
    to_csv(clean_discos(database, JsonNormalize(database, GoodPage(database))).df)

\* ------------------------------------------------------------------------
\* State
\* ------------------------------------------------------------------------
VARIABLES
    files,        \* ./esa_data: file name -> content
    today,        \* the day dt.datetime.now() falls on
    calls,        \* calls of get_data made so far
    pc,           \* where the running call is
    database,     \* the argument of get_data
    now,          \* get_data: the day of the call
    filelist,     \* get_data: the names glob returned
    recent_file,  \* get_data: the file chosen by the loop
    df,           \* the DataFrame returned
    outcome,      \* "running", "returned" or the exception raised
    raisedBy,     \* the function that raised it
    response,     \* retrieve_discos_data: the last response
    last_page,    \* retrieve_discos_data: totalPages of the first response
    page,         \* retrieve_discos_data: the page of the loop
    acc,          \* retrieve_discos_data: df, the pages appended so far
    wait_time,    \* retrieve_discos_data: the seconds to sleep
    files0,       \* history: the directory when the call began
    log,          \* history: the requests and sleeps of the call, in order
    other,        \* the state of a second process that runs get_data
    stored        \* history: the names write_data has written, in order

vars ==
    <<files, today, calls, pc, database, now, filelist, recent_file, df,
      outcome, raisedBy, response, last_page, page, acc, wait_time, files0,
      log, other, stored>>

fetchVars == <<response, last_page, page, acc, wait_time>>

NoFile == FileName("", NoDate, "")

\* entries of the history
ReqEvent(p, r) == [ev |-> "request", page |-> p, secs |-> 0, resp |-> r]
SleepEvent(t) == [ev |-> "sleep", page |-> 0, secs |-> t, resp |-> NoResponse]

\* what a process that runs get_data has of its own: where it is and its
\* local variables.  The directory and the clock are shared.
Local ==
    [pc |-> pc, database |-> database, now |-> now, filelist |-> filelist,
     recent_file |-> recent_file, df |-> df, outcome |-> outcome,
     raisedBy |-> raisedBy, response |-> response, last_page |-> last_page,
     page |-> page, acc |-> acc, wait_time |-> wait_time, files0 |-> files0,
     log |-> log]

\* two processes run get_data on the same directory with no lock: at any
\* point the process that runs is suspended and the other one goes on
Switch ==
    /\ other' = Local
    /\ pc' = other.pc
    /\ database' = other.database
    /\ now' = other.now
    /\ filelist' = other.filelist
    /\ recent_file' = other.recent_file
    /\ df' = other.df
    /\ outcome' = other.outcome
    /\ raisedBy' = other.raisedBy
    /\ response' = other.response
    /\ last_page' = other.last_page
    /\ page' = other.page
    /\ acc' = other.acc
    /\ wait_time' = other.wait_time
    /\ files0' = other.files0
    /\ log' = other.log
    /\ UNCHANGED <<files, today, calls, stored>>

\* ------------------------------------------------------------------------
\* get_data, read_data, write_data
\* ------------------------------------------------------------------------
\* glob.glob(os.path.join('./esa_data', f'{database}_*'))
glob(dir, prefix) == {n \in DOMAIN dir : n.prefix = prefix}

\* delta_t of a file whose stamp is a calendar date, in whole days: now is
\* later than the midnight of its day by less than a day, so delta_t < k days
\* exactly when Age < k
Age(n, day) == day - n.stamp[2]

Min(S) == CHOOSE x \in S : \A y \in S : x <= y

\* the files the loop of get_data gives a date to
Dated(fl) == {n \in fl : n.stamp[1] = "date"}

\* a min_delta_t that keeps the greatest age
min_delta_t_Oldest(fl, day) ==
    IF Dated(fl) = {} THEN max_age_days
    ELSE CHOOSE a \in {Age(n, day) : n \in Dated(fl)} :
            \A n \in Dated(fl) : Age(n, day) <= a

\* min_delta_t after the loop
min_delta_t(fl, day) ==
    Min({max_age_days} \cup {Age(n, day) : n \in Dated(fl)})

\* the values recent_file can have after the loop: a file of the least age,
\* the first of them in the order glob listed them (any order)
RecentFiles(fl, day) ==
    {n \in Dated(fl) : /\ Age(n, day) < max_age_days
                       /\ Age(n, day) = min_delta_t(fl, day)}

\* the call ends: return df, or the exception e raised in function f
Return(d) ==
    /\ df' = d
    /\ outcome' = "returned"
    /\ raisedBy' = ""
    /\ pc' = "done"

Raised(e, f) ==
    /\ df' = EmptyDf
    /\ outcome' = e
    /\ raisedBy' = f
    /\ pc' = "done"

\* get_data(database), down to the glob
Call(db) ==
    /\ pc \in {"idle", "done"}
    /\ calls < MaxCalls
    /\ calls' = calls + 1
    /\ database' = db
    /\ now' = today
    /\ filelist' = glob(files, db)
    /\ files0' = files
    /\ recent_file' = NoFile
    /\ df' = EmptyDf
    /\ outcome' = "running"
    /\ raisedBy' = ""
    /\ response' = NoResponse
    /\ last_page' = 0
    /\ page' = 0
    /\ acc' = EmptyDf
    /\ wait_time' = 0
    /\ log' = <<>>
    /\ pc' = "resolve"
    /\ UNCHANGED <<files, today, other, stored>>

\* get_data: the choice between the cache and the API.  strptime raises
\* ValueError on a stamp that is no calendar date; read_data raises when
\* the file does not parse.
Resolve ==
    /\ pc = "resolve"
    /\ UNCHANGED <<files, today, calls, database, now, filelist, files0, log,
                   other, stored>>
    /\ UNCHANGED fetchVars
    /\ IF filelist = {}
       THEN /\ pc' = "request"
            /\ UNCHANGED <<recent_file, df, outcome, raisedBy>>
       ELSE IF \E n \in filelist : n.stamp[1] = "baddate"
       THEN /\ Raised("ValueError", "get_data")
            /\ UNCHANGED recent_file
       ELSE IF min_delta_t(filelist, today) < max_age_days
       THEN \E f \in RecentFiles(filelist, today) :
               /\ recent_file' = f
               /\ IF files[f][1] = "csv"
                  THEN Return(read_csv(files[f]))
                  ELSE Raised("ParserError", "read_data")
       ELSE /\ pc' = "request"
            /\ UNCHANGED <<recent_file, df, outcome, raisedBy>>

\* a write_data that leaves the date out of the file name
write_data_NoDate ==
    /\ pc = "write"
    /\ files' = (FileName(database, NoDate, "csv") :> to_csv(df)) @@ files
    /\ stored' = Append(stored, FileName(database, NoDate, "csv"))
    /\ outcome' = "returned"
    /\ pc' = "done"
    /\ UNCHANGED <<today, calls, database, now, filelist, recent_file, df,
                   raisedBy, files0, log, other>>
    /\ UNCHANGED fetchVars

\* write_data(df, prefix) and the return of get_data
write_data ==
    /\ pc = "write"
    /\ files' = (FileName(database, Date(today), "csv") :> to_csv(df)) @@ files
    /\ stored' = Append(stored, FileName(database, Date(today), "csv"))
    /\ outcome' = "returned"
    /\ pc' = "done"
    /\ UNCHANGED <<today, calls, database, now, filelist, recent_file, df,
                   raisedBy, files0, log, other>>
    /\ UNCHANGED fetchVars

\* the day changes.  The program reads the clock in get_data and in
\* write_data only, so a change while the pages are fetched is seen as a
\* change just before write_data.
Tick(d) ==
    /\ pc \in {"idle", "done", "write"}
    /\ d > today
    /\ today' = d
    /\ UNCHANGED <<files, calls, pc, database, now, filelist, recent_file, df,
                   outcome, raisedBy, files0, log, other, stored>>
    /\ UNCHANGED fetchVars

\* ------------------------------------------------------------------------
\* retrieve_discos_data.  R is the set of responses the server can give.
\* ------------------------------------------------------------------------
getFrame ==
    UNCHANGED <<files, today, calls, database, now, filelist, recent_file,
                files0, other, stored>>

\* the first request, the check of response.ok, the first page and
\* totalPages
RequestFirst(R) ==
    /\ pc = "request"
    /\ getFrame
    /\ \E r \in R :
          /\ response' = r
          /\ log' = Append(log, ReqEvent(1, r))
          /\ IF ~r.ok
             THEN /\ Raised("MyError", "retrieve_discos_data")
                  /\ UNCHANGED <<last_page, page, acc, wait_time>>
             ELSE /\ acc' = JsonNormalize(database, r.data)
                  /\ last_page' = r.totalPages
                  /\ page' = 2
                  /\ pc' = "loop"
                  /\ UNCHANGED <<df, outcome, raisedBy, wait_time>>

\* a loop body that sleeps for Retry-After with no margin
RequestPage_NoMargin(R) ==
    /\ pc = "loop"
    /\ page <= last_page
    /\ getFrame
    /\ \E r \in R :
          /\ response' = r
          /\ log' = Append(log, ReqEvent(page, r))
          /\ IF r.remaining = 0
             THEN /\ wait_time' = r.retryAfter
                  /\ pc' = "sleep"
             ELSE /\ pc' = "append"
                  /\ UNCHANGED wait_time
    /\ UNCHANGED <<df, outcome, raisedBy, last_page, page, acc>>

\* the body of the loop down to the test of X-Ratelimit-Remaining: the
\* request for the page and the headers of its response
RequestPage(R) ==
    /\ pc = "loop"
    /\ page <= last_page
    /\ getFrame
    /\ \E r \in R :
          /\ response' = r
          /\ log' = Append(log, ReqEvent(page, r))
          /\ IF r.remaining = 0
             THEN /\ wait_time' = r.retryAfter + 5
                  /\ pc' = "sleep"
             ELSE /\ pc' = "append"
                  /\ UNCHANGED wait_time
    /\ UNCHANGED <<df, outcome, raisedBy, last_page, page, acc>>

\* a sleep after which the loop goes on with the response it has
Sleep_NoRetry ==
    /\ pc = "sleep"
    /\ getFrame
    /\ log' = Append(log, SleepEvent(wait_time))
    /\ pc' = "append"
    /\ UNCHANGED <<df, outcome, raisedBy>>
    /\ UNCHANGED fetchVars

\* time.sleep(float(wait_time))
Sleep ==
    /\ pc = "sleep"
    /\ getFrame
    /\ log' = Append(log, SleepEvent(wait_time))
    /\ pc' = "retry"
    /\ UNCHANGED <<df, outcome, raisedBy>>
    /\ UNCHANGED fetchVars

\* a second request whose response is dropped: the loop goes on with the
\* response of the first request
RequestAgain_KeepFirst(R) ==
    /\ pc = "retry"
    /\ getFrame
    /\ \E r \in R : log' = Append(log, ReqEvent(page, r))
    /\ pc' = "append"
    /\ UNCHANGED <<df, outcome, raisedBy, response, last_page, page, acc,
                   wait_time>>

\* the second request for the page, after the sleep
RequestAgain(R) ==
    /\ pc = "retry"
    /\ getFrame
    /\ \E r \in R :
          /\ response' = r
          /\ log' = Append(log, ReqEvent(page, r))
    /\ pc' = "append"
    /\ UNCHANGED <<df, outcome, raisedBy, last_page, page, acc, wait_time>>

\* dat = response.json()['data'] and the append: KeyError when the response
\* carries no data
AppendPage ==
    /\ pc = "append"
    /\ getFrame
    /\ UNCHANGED <<log, response, last_page, wait_time>>
    /\ IF ~response.ok
       THEN /\ Raised("KeyError", "retrieve_discos_data")
            /\ UNCHANGED <<page, acc>>
       ELSE /\ acc' = DfAppend(acc, JsonNormalize(database, response.data))
            /\ page' = page + 1
            /\ pc' = "loop"
            /\ UNCHANGED <<df, outcome, raisedBy>>

\* a retrieve that saves the pages before it normalises them
Clean_WriteFirst ==
    /\ pc = "loop"
    /\ page > last_page
    /\ UNCHANGED <<today, calls, database, now, filelist, recent_file,
                   files0, log, other, stored>>
    /\ UNCHANGED fetchVars
    /\ files' = (FileName(database, Date(today), "csv") :> to_csv(acc)) @@ files
    /\ LET res == clean_discos(database, acc)
       IN IF res.err # "none"
          THEN Raised(res.err, "clean_discos")
          ELSE Return(res.df)

\* after the last page: df = clean_discos(database, df), then back in
\* get_data with the DataFrame
Clean ==
    /\ pc = "loop"
    /\ page > last_page
    /\ getFrame
    /\ UNCHANGED <<log>>
    /\ UNCHANGED fetchVars
    /\ LET res == clean_discos(database, acc)
       IN IF res.err # "none"
          THEN Raised(res.err, "clean_discos")
          ELSE /\ df' = res.df
               /\ pc' = "write"
               /\ UNCHANGED <<outcome, raisedBy>>

\* ------------------------------------------------------------------------
\* Specification of get_data: calls one after the other on a directory that
\* holds up to MaxFiles files
\* ------------------------------------------------------------------------
GetDatabases == {"objects", "fragmentations"}

\* the files a directory can hold at first.  Of objects: a stale file (of
\* day 0, max_age_days old on FirstDay), two files of day 1 of which one
\* does not parse, a file of FirstDay that does not parse, a file with no
\* date in its name and one stamped with digits that are no date.  Of
\* fragmentations: a file of FirstDay.
InitNames ==
    {FileName("objects", st, "csv") :
        st \in {Date(0), Date(1), Date(FirstDay), NoDate, BadDate}}
    \cup {FileName("objects", Date(1), "alt"),
          FileName("fragmentations", Date(FirstDay), "csv")}

InitContent(n) ==
    IF n \in {FileName("objects", Date(1), "alt"),
              FileName("objects", Date(FirstDay), "csv")}
    THEN Corrupt
    ELSE SampleContent(n.prefix)

InitDirs ==
    {[n \in S |-> InitContent(n)] :
        S \in {T \in SUBSET InitNames : Cardinality(T) <= MaxFiles}}

\* the pages and the responses of the server in the runs of get_data
GetPages(db) == {<<RecA(db)>>, <<RecA(db), RecB(db)>>}
GetHeaders == {<<1, 0>>, <<0, 10>>}
GetFirst == Responses(GetPages(database), {1, 2}, GetHeaders)
GetLater == Responses(GetPages(database), {1}, GetHeaders)

InitCall ==
    /\ today = FirstDay
    /\ now = FirstDay
    /\ filelist = {}
    /\ recent_file = NoFile
    /\ df = EmptyDf
    /\ outcome = "running"
    /\ raisedBy = ""
    /\ response = NoResponse
    /\ last_page = 0
    /\ page = 0
    /\ acc = EmptyDf
    /\ wait_time = 0
    /\ log = <<>>
    /\ other = Local
    /\ stored = <<>>

Init ==
    /\ files \in InitDirs
    /\ files0 = files
    /\ calls = 0
    /\ pc = "idle"
    /\ database = "objects"
    /\ InitCall

Next ==
    \/ \E db \in GetDatabases : Call(db)
    \/ Resolve
    \/ RequestFirst(GetFirst)
    \/ RequestPage(GetLater)
    \/ Sleep
    \/ RequestAgain(GetLater)
    \/ AppendPage
    \/ Clean
    \/ write_data
    \/ \E d \in Days : Tick(d)

Spec == Init /\ [][Next]_vars

\* ------------------------------------------------------------------------
\* Specification of the fetch: retrieve_discos_data entered from get_data on
\* an empty directory, the server free in its pages and headers
\* ------------------------------------------------------------------------
FetchDatabases == {"reentries"}
FetchPages(db) ==
    {<<>>, <<RecA(db)>>, <<RecA(db), RecB(db)>>, <<RecB(db), RecA(db)>>}
FetchFirst == Responses(FetchPages(database), 1..MaxPages, Headers)
FetchLater == Responses(FetchPages(database), {1}, Headers)

InitFetch ==
    /\ files = [n \in {} |-> Corrupt]
    /\ files0 = files
    /\ calls = 1
    /\ pc = "request"
    /\ database \in FetchDatabases
    /\ InitCall

NextFetch ==
    \/ RequestFirst(FetchFirst)
    \/ RequestPage(FetchLater)
    \/ Sleep
    \/ RequestAgain(FetchLater)
    \/ AppendPage
    \/ Clean

SpecFetch == InitFetch /\ [][NextFetch]_vars

\* the fetch is one sequential loop: every request is answered and every
\* sleep, of a finite Retry-After, ends, so a step that can be taken is taken
SpecFetchLive == SpecFetch /\ WF_vars(NextFetch)

\* ------------------------------------------------------------------------
\* Specification of the normalisation: one page of up to MaxRecs records of
\* any shape, of any database
\* ------------------------------------------------------------------------
NormFirst ==
    {Response(TRUE, d, 1, 1, 0) :
        d \in SeqsUpTo(NormRecords(database), MaxRecs)}

InitNorm ==
    /\ files = [n \in {} |-> Corrupt]
    /\ files0 = files
    /\ calls = 1
    /\ pc = "request"
    /\ database \in Databases
    /\ InitCall

NextNorm ==
    \/ RequestFirst(NormFirst)
    \/ Clean

SpecNorm == InitNorm /\ [][NextNorm]_vars

\* ------------------------------------------------------------------------
\* Specification of two processes that run get_data at the same time, on
\* one day, on a directory that holds no file younger than max_age_days
\* ------------------------------------------------------------------------
ConcDirs ==
    {dir \in InitDirs :
        \A n \in DOMAIN dir : n = FileName("objects", Date(0), "csv")}

InitConc ==
    /\ files \in ConcDirs
    /\ files0 = files
    /\ calls = 0
    /\ pc = "idle"
    /\ database = "objects"
    /\ InitCall

NextConc ==
    \/ Call("objects")
    \/ Resolve
    \/ RequestFirst(GetFirst)
    \/ RequestPage(GetLater)
    \/ Sleep
    \/ RequestAgain(GetLater)
    \/ AppendPage
    \/ Clean
    \/ write_data
    \/ Switch

SpecConc == InitConc /\ [][NextConc]_vars

\* ------------------------------------------------------------------------
\* Properties of the fetch (checked under SpecFetch)
\* ------------------------------------------------------------------------
IsRequest(e) == e.ev = "request"
Requests == SelectSeq(log, IsRequest)

\* the fetch is over: retrieve_discos_data has left its loop or has raised
FetchEnded == pc \in {"write", "done"}

\* the event at i is a request whose response is not successful
FailedAt(i) == log[i].ev = "request" /\ ~log[i].resp.ok

\* the event at i is the first request for its page (not the one that
\* follows a sleep)
FirstAttemptAt(i) ==
    /\ log[i].ev = "request"
    /\ i > 1 => log[i - 1].ev = "request"

\* the event at i is a request whose response reports no remaining quota
ZeroQuotaAt(i) == log[i].ev = "request" /\ log[i].resp.remaining = 0

RECURSIVE ConcatData(_)
\* the records of the responses of a sequence of requests, in order
ConcatData(reqs) ==
    IF reqs = <<>> THEN <<>>
    ELSE ConcatData(SubSeq(reqs, 1, Len(reqs) - 1)) \o reqs[Len(reqs)].resp.data

\* C3: whenever a response is not successful, on the first page or on a
\* later one, no request follows it and the fetch ends in the API error
\* (MyError) with no DataFrame returned.
C3_FailsWithApiError ==
    /\ \A i \in 1..Len(log) : \A j \in 1..Len(log) :
          (FailedAt(i) /\ i < j) => log[j].ev # "request"
    /\ (FetchEnded /\ \E i \in 1..Len(log) : FailedAt(i)) =>
          /\ outcome = "MyError"
          /\ df = EmptyDf

AllOkNoZero ==
    \A i \in 1..Len(log) :
        log[i].ev = "request" => log[i].resp.ok /\ log[i].resp.remaining # 0

\* C5: when every response succeeds and none reports zero quota, the pages
\* 1..N (N the first response's totalPages) are requested in increasing
\* order, each once, and the accumulated DataFrame is the rows of the
\* pages' records in page order, the order within each page kept.
C5_PagesInOrder ==
    (AllOkNoZero /\ log # <<>>) =>
        /\ \A i \in 1..Len(log) : log[i].ev = "request" /\ log[i].page = i
        /\ Len(log) <= log[1].resp.totalPages
        /\ FetchEnded =>
              /\ Len(log) = log[1].resp.totalPages
              /\ acc = JsonNormalize(database, ConcatData(log))

\* C5 witness: two pages of two records each were fetched with no error and
\* no zero quota, and the four rows are in hand.
C5_Witness ==
    /\ pc = "write"
    /\ AllOkNoZero
    /\ Len(log) = 2
    /\ Len(log[1].resp.data) = 2 /\ Len(log[2].resp.data) = 2
    /\ log[1].resp.data # log[2].resp.data
    /\ Len(acc.rows) = 4

\* C6: when the first response to a page n >= 2 reports zero quota, one
\* sleep of Retry-After + 5 seconds and one more request for page n follow;
\* if that request fails too nothing follows it and the fetch ends in the
\* API error (MyError).
C6_SingleRetry ==
    \A i \in 2..Len(log) :
        (FirstAttemptAt(i) /\ ZeroQuotaAt(i)) =>
            /\ i + 1 <= Len(log) => log[i + 1] = SleepEvent(log[i].resp.retryAfter + 5)
            /\ i + 2 <= Len(log) =>
                  /\ log[i + 2].ev = "request"
                  /\ log[i + 2].page = log[i].page
                  /\ ~log[i + 2].resp.ok =>
                        /\ Len(log) = i + 2
                        /\ FetchEnded => outcome = "MyError"

\* the pages n >= 2 whose first response reported zero remaining quota
ZeroQuotaPages ==
    {log[i].page : i \in {j \in 2..Len(log) : FirstAttemptAt(j) /\ ZeroQuotaAt(j)}}

\* after a successful first response: totalPages is the first response's,
\* the requests made never exceed 2N - 1, and once the loop has run through
\* its pages they are N plus the pages that reported zero quota
C16_RequestCount ==
    (log # <<>> /\ log[1].resp.ok) =>
        /\ last_page = log[1].resp.totalPages
        /\ Len(Requests) <= 2 * last_page - 1
        /\ page > last_page =>
              Len(Requests) = last_page + Cardinality(ZeroQuotaPages)

\* C16: the fetch ends, whatever the headers of the responses; with N the
\* totalPages of the first response, and of no other, a fetch that runs
\* through its pages has made N requests plus one for every page of 2..N
\* whose first response reported zero remaining quota, at most 2N - 1.
C16_TerminatesWithCount == [](C16_RequestCount) /\ <>FetchEnded

\* C16 witness: a fetch of two pages has run through with three requests,
\* the second page's first response having reported zero quota.
C16_Witness ==
    /\ pc = "write"
    /\ last_page = 2
    /\ Len(Requests) = 3
    /\ ZeroQuotaPages = {2}
    /\ log[4].resp.totalPages # last_page

\* ------------------------------------------------------------------------
\* Properties of the normalisation (checked under SpecNorm)
\* ------------------------------------------------------------------------
\* the response at i is one whose records are appended: every request but
\* the first request for a page n >= 2 that reported zero quota
AppendedAt(i) ==
    /\ log[i].ev = "request"
    /\ ~(i > 1 /\ FirstAttemptAt(i) /\ ZeroQuotaAt(i))

RECURSIVE RawUpTo(_)
\* the raw records appended by the first k events, in order
RawUpTo(k) ==
    IF k = 0 THEN <<>>
    ELSE IF AppendedAt(k) THEN RawUpTo(k - 1) \o log[k].resp.data
    ELSE RawUpTo(k - 1)

RawRecords == RawUpTo(Len(log))

\* C17 (checked under SpecFetch): between two passes of the loop, and
\* after it, every page requested so far has exactly one response whose
\* records were appended, the response to the repeated request when the
\* page was requested twice, and the accumulated DataFrame is the rows of
\* exactly those records, in order.
C17_EachPageOnce ==
    ((pc \in {"loop", "write"} \/ raisedBy = "clean_discos") /\ log # <<>>) =>
        /\ acc = JsonNormalize(database, RawRecords)
        /\ Len(acc.rows) = Len(RawRecords)
        /\ \A p \in 1..(page - 1) :
              Cardinality({i \in 1..Len(log) :
                              AppendedAt(i) /\ log[i].page = p}) = 1
        /\ \A i \in 2..Len(log) :
              log[i].ev = "sleep" => ~AppendedAt(i - 1) /\ AppendedAt(i + 1)

\* C17 witness: the second page was requested twice, the two responses
\* carried different records, and the fetch ended with the records of the
\* first page and of the repeated request.
C17_Witness ==
    /\ pc = "write"
    /\ Len(log) = 4
    /\ log[3].ev = "sleep"
    /\ Len(log[2].resp.data) = 2
    /\ Len(log[4].resp.data) = 1
    /\ acc = JsonNormalize(database, log[1].resp.data \o log[4].resp.data)
    /\ Len(acc.rows) = Len(log[1].resp.data) + 1

\* the id of a reference as a string, and as an integer
IdText(id) == IF id[1] = "int" THEN <<"str", ValDigits(id[2])>> ELSE id
IdNumber(id) == IF id[1] = "str" THEN <<"int", DigitsVal(id[2])>> ELSE id

\* y is the null value of a column
IsNull(y) == y[1] \in {"nan", "none"}

\* y is what reference coercion makes of the to-one data x
ToOneCoerced(x, y) ==
    IF x[1] = "dict" THEN y = x[2].id ELSE IsNull(y)

\* y is what reference coercion makes of the to-many data x: null, the
\* scalar id, or the list of the ids in the same order
ToManyCoerced(x, y) ==
    IF x[1] # "refs" \/ Len(x[2]) = 0 THEN IsNull(y)
    ELSE IF Len(x[2]) = 1 THEN y = IdText(x[2][1].id)
    ELSE /\ y[1] = "list"
         /\ Len(y[2]) = Len(x[2])
         /\ \A k \in 1..Len(x[2]) : y[2][k] = IdText(x[2][k].id)

C10_DiscosIdsList ==
    (pc = "write" /\ database = "fragmentations") =>
        /\ Len(df.rows) = Len(RawRecords)
        /\ \A i \in 1..Len(RawRecords) :
              LET x == RawRecords[i].objects
                  y == df.rows[i]["DiscosIds"]
              IN /\ y[1] = "ilist"
                 /\ Len(y[2]) = Len(x[2])
                 /\ \A k \in 1..Len(x[2]) : y[2][k] = IdNumber(x[2][k].id)

\* C10 witness: a fragmentations dataset was normalised that has a record
\* with exactly one object reference, and a record with several.
C10_Witness ==
    /\ pc = "write" /\ database = "fragmentations"
    /\ \E i \in 1..Len(RawRecords) :
          /\ Len(RawRecords[i].objects[2]) = 1
          /\ df.rows[i]["DiscosIds"] = <<"ilist", <<<<"int", 42>>>>>>
    /\ \E i \in 1..Len(RawRecords) : Len(RawRecords[i].objects[2]) >= 2

\* the columns of a normalised dataset of the database that has records
ExpectedColumns(db) ==
    LET dat == IF db \in {"objects", "launches"} THEN <<RecA(db), RecB(db)>>
               ELSE <<RecA(db)>>
    IN clean_discos(db, JsonNormalize(db, dat)).df.columns

\* C11: for each of the six databases, a fetch whose record sequence is
\* empty is normalised with no exception, to a DataFrame of zero rows that
\* has the columns a dataset of that database has.
C11_EmptyNormalises ==
    (/\ pc \in {"write", "done"}
     /\ log # <<>>
     /\ \A i \in 1..Len(log) : log[i].ev = "request" => log[i].resp.ok
     /\ RawRecords = <<>>) =>
        /\ pc = "write"
        /\ df.rows = <<>>
        /\ df.columns = ExpectedColumns(database)

\* ------------------------------------------------------------------------
\* Properties of get_data (checked under Spec)
\* ------------------------------------------------------------------------
\* the cache files of the dataset that carried a calendar date when the call
\* began, and those of them younger than max_age_days on the day of the call
CacheEntries == Dated(glob(files0, database))
FreshEntries == {n \in CacheEntries : Age(n, now) < max_age_days}

\* the call made no request, normalised nothing and wrote nothing
NoFetch ==
    /\ log = <<>>
    /\ acc = EmptyDf
    /\ files = files0

\* the fresh entries that pd.read_csv can parse
ReadableFreshEntries == {n \in FreshEntries : files0[n][1] = "csv"}

\* C1: whatever else the directory holds, a call that finds a readable
\* cache file of the dataset younger than max_age_days returns the content
\* of a cache file of the dataset, with no request, no normalisation and no
\* write.
C1_FreshCacheIsReturned ==
    (pc = "done" /\ ReadableFreshEntries # {}) =>
        /\ outcome = "returned"
        /\ \E n \in glob(files0, database) :
              /\ files0[n][1] = "csv"
              /\ df = read_csv(files0[n])
        /\ NoFetch

\* the names the call added to the directory
NewNames == DOMAIN files \ DOMAIN files0

\* C2: a call that finds no cache entry of the dataset, or only entries
\* max_age_days old or older, makes at least one request and, when it
\* returns, has written exactly one new file, named after the dataset and
\* the day of the write.
C2_StaleCacheIsFetched ==
    (pc = "done" /\ FreshEntries = {}) =>
        /\ Len(Requests) >= 1
        /\ outcome = "returned" =>
              \E d \in Days :
                 /\ now <= d /\ d <= today
                 /\ NewNames = {FileName(database, Date(d), "csv")}
                 /\ files[FileName(database, Date(d), "csv")] = to_csv(df)
                 /\ \A n \in DOMAIN files0 : files[n] = files0[n]

\* C7: a call that ends in an exception of the fetch or of the
\* normalisation hands it to the caller with no DataFrame, and the
\* directory is what it was when the call began.
C7_FailureLeavesCache ==
    (pc = "done" /\ raisedBy \in {"retrieve_discos_data", "clean_discos"}) =>
        /\ outcome \notin {"running", "returned"}
        /\ df = EmptyDf
        /\ files = files0

\* C7 witness: a call ended in an exception of the normalisation after its
\* pages were fetched, on a directory that held files.
C7_Witness ==
    /\ pc = "done"
    /\ raisedBy = "clean_discos"
    /\ Len(Requests) >= 2
    /\ DOMAIN files0 # {}
    /\ files = files0

\* C8: no step of any call removes a file or changes the content of a file
\* that exists, and the file write_data writes has a name that did not
\* exist before.
C8_NeverOverwrites ==
    [][/\ \A n \in DOMAIN files : n \in DOMAIN files' /\ files'[n] = files[n]
       /\ files' # files =>
             \E n \in DOMAIN files' :
                /\ n \notin DOMAIN files
                /\ DOMAIN files' = DOMAIN files \cup {n}]_vars

\* C8 witness: the second call, max_age_days after the first, has stored a
\* file of objects beside the file of objects that the first call stored.
C8_Witness ==
    /\ calls = 2
    /\ pc = "done"
    /\ database = "objects"
    /\ NewNames # {}
    /\ FileName("objects", Date(FirstDay), "csv") \in DOMAIN files0
    /\ files0[FileName("objects", Date(FirstDay), "csv")] # Corrupt

\* the least age among the cache entries
MinAge == Min({Age(n, now) : n \in CacheEntries})

\* C12: a call ends with the content of a cache entry of the least age,
\* and with no fetch, exactly when there is a cache entry and the least age
\* is less than max_age_days; otherwise, also when the least age is
\* max_age_days, it is a miss and the call fetches.
C12_SmallestAgeSelected ==
    pc = "done" =>
        IF CacheEntries # {} /\ MinAge < max_age_days
        THEN /\ outcome = "returned"
             /\ recent_file \in CacheEntries
             /\ Age(recent_file, now) = MinAge
             /\ df = read_csv(files0[recent_file])
             /\ NoFetch
        ELSE Len(Requests) >= 1

\* the files of the dataset whose name has no date that parses
Undated == {n \in glob(files0, database) : n.stamp[1] # "date"}

\* C13: a file of the dataset whose name has no date that parses is never
\* the file chosen and never makes get_data raise; when no cache entry is
\* younger than max_age_days the call fetches.
C13_UndatedIgnored ==
    (pc = "done" /\ Undated # {}) =>
        /\ recent_file \notin Undated
        /\ raisedBy # "get_data"
        /\ FreshEntries = {} => Len(Requests) >= 1

\* the cache entries that pd.read_csv cannot parse
Unreadable == {n \in CacheEntries : files0[n][1] # "csv"}

\* C14: a cache entry that cannot be read is never the file whose content
\* is returned and never makes get_data raise; when no readable entry is
\* younger than max_age_days a call that returns has fetched the dataset
\* it returns.
C14_UnreadableExcluded ==
    (pc = "done" /\ Unreadable # {}) =>
        /\ recent_file \notin Unreadable
        /\ raisedBy # "read_data"
        /\ (ReadableFreshEntries = {} /\ outcome = "returned") =>
              /\ Len(Requests) >= 1
              /\ df = clean_discos(database, acc).df

\* the files of the dataset that earlier calls of this run stored, each
\* after a miss and a fetch that succeeded, before this call began
EarlierStores ==
    {n \in DOMAIN files0 :
        n.prefix = database /\ \E i \in 1..Len(stored) : stored[i] = n}

\* the call was a hit on the youngest of the files in S: it returned its
\* content with no request and no write
HitOn(S) ==
    /\ outcome = "returned"
    /\ NoFetch
    /\ \E n \in S :
          /\ \A m \in S : Age(n, now) <= Age(m, now)
          /\ df = read_csv(files0[n])

\* no file was stored twice
OneFilePerDay ==
    \A i \in 1..Len(stored) : \A j \in 1..Len(stored) :
        i # j => stored[i] # stored[j]

\* C18 as claimed: a call made less than max_age_days, in elapsed time,
\* after an earlier call of the same dataset stored its file is a hit with
\* no request and no write, and no file is stored twice.
C18_HitWithinMaxAge ==
    /\ OneFilePerDay
    /\ (pc = "done" /\ \E n \in EarlierStores :
            Instant(now) - Instant(n.stamp[2]) < 2 * max_age_days) =>
          HitOn(EarlierStores)

\* C18 as amended: a call made on a day fewer than max_age_days days after
\* the day stamped on a file that an earlier call of the same dataset
\* stored is a hit with no request and no write, and no file is stored
\* twice.
C18_HitWithinMaxAgeDays ==
    /\ OneFilePerDay
    /\ (pc = "done" /\ \E n \in EarlierStores : Age(n, now) < max_age_days) =>
          HitOn(EarlierStores)

\* C18 witness: the first call missed and stored a file of objects, and the
\* second call, of objects too and on the next day, returned the content of
\* that file with no request.
C18_Witness ==
    /\ calls = 2
    /\ pc = "done"
    /\ database = "objects"
    /\ Len(stored) = 1
    /\ stored[1] \in EarlierStores
    /\ Age(stored[1], now) = 1
    /\ HitOn({stored[1]})
    /\ recent_file = stored[1]

\* ------------------------------------------------------------------------
\* Properties of two processes (checked under SpecConc)
\* ------------------------------------------------------------------------
\* the call of the process with the local state p missed, fetched and
\* returned, so it has written its DataFrame
Wrote(p) == p.pc = "done" /\ p.outcome = "returned" /\ p.log # <<>>

\* C15: when two processes have run get_data of the same dataset at the
\* same time on one day, and both missed, fetched and wrote, the two writes
\* went to two different files of that day, and each file holds the
\* DataFrame of the process that wrote it.
C15_ConcurrentDistinctFiles ==
    (Wrote(Local) /\ Wrote(other) /\ database = other.database) =>
        /\ Len(stored) = 2
        /\ stored[1] # stored[2]
        /\ {files[stored[1]], files[stored[2]]} = {to_csv(df), to_csv(other.df)}

====
